---- MODULE Spec2Model ----
(***************************************************************************)
(* A model of jinja2/environment.py: the Environment (construction,        *)
(* overlay, template acquisition with its cache), as a heap of objects     *)
(* addressed by index, so that object identity and aliasing are explicit.  *)
(***************************************************************************)
EXTENDS Integers, Sequences, FiniteSets, TLC

VARIABLES
    envs,     \* heap of Environment objects; identity = index
    caches,   \* heap of cache objects (dict or LRUCache); identity = index
    regs,     \* heap of registry dicts (filters / tests / globals)
    tmpls,    \* heap of Template objects produced by the loader
    got,      \* history: got[e][n] = template last returned for n by e
    csize,    \* history: csize[e] = the cache_size e's cache was asked with
    uses,     \* history: uses[c] = the keys of LRUCache c, last used last
    last,     \* history: the last call, its arguments and its outcome
    pool,     \* _spontaneous_environments: the LRUCache of environments
    ctxs,     \* heap of Context objects
    modules,  \* heap of TemplateModule objects
    cached_module,  \* the _module attribute of the templates that have one
    streams,  \* heap of TemplateStream objects
    yielded,  \* history: yielded[s] = the chunks next() returned on stream s
    gens      \* heap of the generators that evaluate templates

\* what the environment's own operations leave alone
tvars == <<pool, ctxs, modules, cached_module, streams, yielded, gens>>

vars == <<envs, caches, regs, tmpls, got, csize, uses, last,
          pool, ctxs, modules, cached_module, streams, yielded, gens>>

----------------------------------------------------------------------------
(* Bounds *)

MaxTmpls == 3
MaxEnvs == 2
MaxSharedTmpls == 2
MaxConfigEnvs == 2
MaxRegEnvs == 2
MaxRegChanges == 2
MaxLruSize == 2
MaxLruTmpls == 4
MaxPoolEnvs == 3
MaxCtxTmpls == 1
MaxCtxs == 2
MaxPairs == 2
MaxLineno == 25
MaxChunks == 3
MaxModTmpls == 2
MaxModules == 3
MaxGlobTmpls == 2
MaxRenderTmpls == 1
MaxGens == 2
MaxPulls == 4

\* the template names and the cache sizes the callers use: create_cache
\* tells a negative size, zero and a positive size apart
Names == {"a", "b"}
CacheSizes == {-1, 0, 1}
AllNames == {"a", "b", "c"}

----------------------------------------------------------------------------
(* Python values *)

PyNone == "None"
NoObject == 0
EmptyMap == [x \in {} |-> 0]

Put(m, k, v) == [x \in DOMAIN m \cup {k} |-> IF x = k THEN v ELSE m[x]]
Drop(m, k) == [x \in DOMAIN m \ {k} |-> m[x]]
Update(m, n) == [x \in DOMAIN m \cup DOMAIN n |-> IF x \in DOMAIN n THEN n[x] ELSE m[x]]

RECURSIVE Without(_, _)
Without(q, k) ==
    IF q = <<>> THEN <<>>
    ELSE IF Head(q) = k THEN Without(Tail(q), k)
    ELSE <<Head(q)>> \o Without(Tail(q), k)

(* jinja2.defaults *)
DEFAULT_FILTERS == [upper |-> "builtin"]
DEFAULT_TESTS == [odd |-> "builtin"]
DEFAULT_NAMESPACE == [range |-> "builtin"]

----------------------------------------------------------------------------
(* The caches.  A dict has size -1 and no queue; an LRUCache has its       *)
(* capacity and a queue of keys, least recently used first.                *)

\* the capacity of _spontaneous_environments
PoolSize == 10

NewDict == [size |-> -1, map |-> EmptyMap, queue |-> <<>>]
NewLRUCache(size) == [size |-> size, map |-> EmptyMap, queue |-> <<>>]

\* cache.get(key): the value, or None
CacheGet(c, k) == IF k \in DOMAIN c.map THEN c.map[k] ELSE NoObject

\* the cache after cache.get(key): an LRUCache moves a found key to the
\* most-recent end, a dict is left alone
CacheAfterGet(c, k) ==
    IF c.size > 0 /\ k \in DOMAIN c.map
    THEN [c EXCEPT !.queue = Append(Without(c.queue, k), k)]
    ELSE c

\* the key an LRUCache drops when k is stored, "" when it drops none
CacheVictim(c, k) ==
    IF c.size > 0 /\ k \notin DOMAIN c.map /\ Len(c.queue) >= c.size
    THEN Head(c.queue) ELSE ""

\* the cache after cache[key] = value
CacheAfterSet(c, k, v) ==
    IF c.size < 0 THEN [c EXCEPT !.map = Put(c.map, k, v)]
    ELSE IF k \in DOMAIN c.map
    THEN [c EXCEPT !.map = Put(c.map, k, v),
                   !.queue = Append(Without(c.queue, k), k)]
    ELSE IF CacheVictim(c, k) # ""
    THEN [c EXCEPT !.map = Put(Drop(c.map, Head(c.queue)), k, v),
                   !.queue = Append(Tail(c.queue), k)]
    ELSE [c EXCEPT !.map = Put(c.map, k, v), !.queue = Append(c.queue, k)]

\* a create_cache that gives size 0 a dict
create_cache_m0(size) ==
    IF size <= 0 THEN "dict" ELSE "lru"

\* a create_cache that gives every size but 0 a dict
create_cache_m1(size) ==
    IF size = 0 THEN "none" ELSE "dict"

\* create_cache(size): "none", "dict" or "lru"

create_cache(size) ==
    IF size = 0 THEN "none"
    ELSE IF size < 0 THEN "dict"
    ELSE "lru"

\* the heap after create_cache(size), and the reference it returns
CachesAfterCreate(size) ==
    IF create_cache(size) = "none" THEN caches
    ELSE IF create_cache(size) = "dict" THEN Append(caches, NewDict)
    ELSE Append(caches, NewLRUCache(size))

CacheRefAfterCreate(size) ==
    IF create_cache(size) = "none" THEN NoObject ELSE Len(caches) + 1

----------------------------------------------------------------------------
(* Environment *)

DefaultArgs ==
    [block_start_string |-> "{%", block_end_string |-> "%}",
     variable_start_string |-> "{{", variable_end_string |-> "}}",
     comment_start_string |-> "{#", comment_end_string |-> "#}",
     line_statement_prefix |-> PyNone, trim_blocks |-> FALSE,
     extensions |-> <<>>, optimized |-> TRUE, undefined |-> "Undefined",
     finalize |-> PyNone, autoescape |-> FALSE, loader |-> PyNone,
     cache_size |-> 50, auto_reload |-> TRUE]

\* the keyword arguments overlay() copies onto the new object with setattr
SetAttrNames == DOMAIN DefaultArgs \ {"cache_size", "extensions"}

\* issubclass(cls, Undefined)
UndefinedSubclasses == {"Undefined", "StrictUndefined"}

\* extension(environment): an instance of the class bound to the environment
Instantiate(extension, environment) ==
    [cls |-> extension.cls, environment |-> environment]

\* value.bind(rv): a copy of the instance bound to the other environment
Bind(instance, environment) ==
    [cls |-> instance.cls, environment |-> environment]

RECURSIVE LoadInto(_, _, _)
LoadInto(result, environment, extensions) ==
    IF extensions = <<>> THEN result
    ELSE LoadInto(Put(result, Head(extensions).identifier,
                      Instantiate(Head(extensions), environment)),
                  environment, Tail(extensions))

load_extensions(environment, extensions) ==
    LoadInto(EmptyMap, environment, extensions)

_environment_sanity_check(environment) ==
    /\ environment.undefined \in UndefinedSubclasses
    /\ environment.block_start_string # environment.variable_start_string
    /\ environment.variable_start_string # environment.comment_start_string

\* an __init__ that takes the default registries themselves, not copies
InitFields_m0(self, args) ==
    [f \in DOMAIN DefaultArgs \ {"cache_size", "extensions"} |-> args[f]] @@
    [filters |-> 1, tests |-> 2, globals |-> 3,
     cache |-> CacheRefAfterCreate(args.cache_size),
     extensions |-> load_extensions(self, args.extensions),
     sandboxed |-> FALSE, overlay |-> FALSE, linked_to |-> NoObject,
     shared |-> FALSE]

\* the object __init__ fills in, for the arguments args; self is its identity
InitFields(self, args) ==
    [block_start_string |-> args.block_start_string,
     block_end_string |-> args.block_end_string,
     variable_start_string |-> args.variable_start_string,
     variable_end_string |-> args.variable_end_string,
     comment_start_string |-> args.comment_start_string,
     comment_end_string |-> args.comment_end_string,
     line_statement_prefix |-> args.line_statement_prefix,
     trim_blocks |-> args.trim_blocks,
     undefined |-> args.undefined,
     optimized |-> args.optimized,
     finalize |-> args.finalize,
     autoescape |-> args.autoescape,
     filters |-> Len(regs) + 1,
     tests |-> Len(regs) + 2,
     globals |-> Len(regs) + 3,
     loader |-> args.loader,
     cache |-> CacheRefAfterCreate(args.cache_size),
     auto_reload |-> args.auto_reload,
     extensions |-> load_extensions(self, args.extensions),
     sandboxed |-> FALSE, overlay |-> FALSE, linked_to |-> NoObject,
     shared |-> FALSE]

NoGot == [n \in AllNames |-> NoObject]

\* the record of a call: prev is the template the environment returned for
\* the name before, cached the one the cache held when the call looked
Outcome(op, env, parent, name, kw, err, result, loads, prev, cached) ==
    [op |-> op, env |-> env, parent |-> parent, name |-> name, kw |-> kw,
     err |-> err, result |-> result, loads |-> loads, prev |-> prev,
     cached |-> cached]

\* Environment(**args)
NewEnvironment(args) ==
    LET self == Len(envs) + 1
        rv == InitFields(self, args)
    IN  /\ tmpls' = tmpls
        /\ UNCHANGED tvars
        /\ IF _environment_sanity_check(rv)
           THEN /\ envs' = Append(envs, rv)
                /\ regs' = regs \o <<DEFAULT_FILTERS, DEFAULT_TESTS, DEFAULT_NAMESPACE>>
                /\ caches' = CachesAfterCreate(args.cache_size)
                /\ got' = Append(got, NoGot)
                /\ csize' = Append(csize, args.cache_size)
                /\ uses' = IF Len(caches') > Len(caches) THEN Append(uses, <<>>) ELSE uses
                /\ last' = Outcome("new", self, NoObject, "", args, "", NoObject, 0, NoObject, NoObject)
           ELSE /\ UNCHANGED <<envs, regs, caches, got, csize, uses>>
                /\ last' = Outcome("new", NoObject, NoObject, "", args, "AssertionError",
                                   NoObject, 0, NoObject, NoObject)

\* an overlay() that copies the parent and drops the overrides
OverlayFields_m0(self, parent, kw) ==
    [f \in DOMAIN envs[parent] |->
        IF f = "overlay" THEN TRUE
        ELSE IF f = "linked_to" THEN parent
        ELSE IF f = "cache" /\ "cache_size" \in DOMAIN kw
             THEN CacheRefAfterCreate(kw.cache_size)
        ELSE IF f = "extensions"
             THEN [k \in DOMAIN envs[parent].extensions |->
                      Bind(envs[parent].extensions[k], self)]
        ELSE envs[parent][f]]

\* the object overlay() has built when it reaches its last line
OverlayFields(self, parent, kw) ==
    [f \in DOMAIN envs[parent] |->
        IF f = "overlay" THEN TRUE
        ELSE IF f = "linked_to" THEN parent
        ELSE IF f = "cache" /\ "cache_size" \in DOMAIN kw
             THEN CacheRefAfterCreate(kw.cache_size)
        ELSE IF f = "extensions"
             THEN [k \in DOMAIN envs[parent].extensions |->
                      Bind(envs[parent].extensions[k], self)]
        ELSE IF f \in SetAttrNames /\ f \in DOMAIN kw THEN kw[f]
        ELSE envs[parent][f]]

\* overlay() calls load_extensions(extensions), with one argument, when
\* extensions are given: the call of the two-parameter function fails
OverlayLoadExtensions(kw) ==
    IF "extensions" \in DOMAIN kw THEN "TypeError" ELSE ""

\* parent.overlay(**kw)
Overlay(parent, kw) ==
    LET self == Len(envs) + 1
        rv == OverlayFields(self, parent, kw)
        err == IF OverlayLoadExtensions(kw) # "" THEN OverlayLoadExtensions(kw)
               ELSE IF ~ _environment_sanity_check(rv) THEN "AssertionError"
               ELSE ""
    IN  /\ parent \in 1..Len(envs)
        /\ UNCHANGED <<regs, tmpls>>
        /\ UNCHANGED tvars
        /\ IF err = ""
           THEN /\ envs' = Append(envs, rv)
                /\ caches' = IF "cache_size" \in DOMAIN kw
                             THEN CachesAfterCreate(kw.cache_size) ELSE caches
                /\ got' = Append(got, NoGot)
                /\ csize' = Append(csize, IF "cache_size" \in DOMAIN kw
                                          THEN kw.cache_size ELSE csize[parent])
                /\ uses' = IF Len(caches') > Len(caches) THEN Append(uses, <<>>) ELSE uses
                /\ last' = Outcome("overlay", self, parent, "", kw, "", NoObject, 0, NoObject, NoObject)
           ELSE /\ UNCHANGED <<envs, caches, got, csize, uses>>
                /\ last' = Outcome("overlay", NoObject, parent, "", kw, err, NoObject, 0, NoObject, NoObject)

----------------------------------------------------------------------------
(* Templates and the loader *)

\* Template.is_up_to_date: _uptodate is None ("none") or a callable that
\* answers whether the source is unchanged ("fresh") or not ("stale")
is_up_to_date(template) ==
    IF template.uptodate = "none" THEN TRUE
    ELSE template.uptodate = "fresh"

\* make_globals(d): d is <<>> for None, <<mapping>> otherwise; the result
\* is a reference into regs
MakeGlobalsRef(e, d) ==
    IF d = <<>> THEN envs[e].globals ELSE Len(regs) + 1

\* a make_globals that writes the extra names into the environment's own
\* globals before it copies them
RegsAfterMakeGlobals_m0(e, d) ==
    IF d = <<>> THEN regs
    ELSE Append([regs EXCEPT ![envs[e].globals] = Update(@, d[1])],
                Update(regs[envs[e].globals], d[1]))

RegsAfterMakeGlobals(e, d) ==
    IF d = <<>> THEN regs
    ELSE Append(regs, Update(regs[envs[e].globals], d[1]))

\* what loader.load(environment, name, globals) builds: out says whether the
\* loader supplies an uptodate callable ("check") or none ("nocheck")
Loaded(e, name, globalsRef, out) ==
    [name |-> name, globals |-> globalsRef,
     uptodate |-> IF out = "check" THEN "fresh" ELSE "none"]

LoaderOutcomes == {"check", "nocheck", "notfound"}

\* a test that takes whatever the cache holds
CacheHit_m0(e, template) ==
    template # NoObject

\* the test on lines 370-371, for the template the cache returned
CacheHit(e, template) ==
    template # NoObject /\ (~ envs[e].auto_reload \/ is_up_to_date(tmpls[template]))

\* a get_template that looks for a loader only after a cache miss
Decision_m0(e, template) ==
    IF envs[e].cache # NoObject /\ CacheHit(e, template) THEN "hit"
    ELSE IF envs[e].loader = PyNone THEN "noloader"
    ELSE "load"

\* what get_template does with the template the cache returned: it fails
\* for want of a loader, returns the cached template, or asks the loader
Decision(e, template) ==
    IF envs[e].loader = PyNone THEN "noloader"
    ELSE IF envs[e].cache # NoObject /\ CacheHit(e, template) THEN "hit"
    ELSE "load"

\* the caches after self.cache[name] = template (lines 375-376)
Stored(cs, c, name, template) ==
    IF c = NoObject THEN cs
    ELSE [cs EXCEPT ![c] = CacheAfterSet(@, name, template)]

\* the history of returned templates: e returned result for name, and the
\* cache c dropped victim
GotAfter(e, name, result, c, victim) ==
    [i \in 1..Len(got) |->
        [n \in DOMAIN got[i] |->
            IF i = e /\ n = name THEN result
            ELSE IF c # NoObject /\ envs[i].cache = c /\ n = victim THEN NoObject
            ELSE got[i][n]]]

\* the history of uses: name was looked up and found, or stored, in cache c
UsesAfter(c, name) ==
    IF c = NoObject \/ caches[c].size < 0 THEN uses
    ELSE [uses EXCEPT ![c] = Append(Without(@, name), name)]

\* a get_template that forgets the requested name when the loader fails
KeptOnFailure_m0(cs, c, name) ==
    IF c = NoObject THEN cs
    ELSE [cs EXCEPT ![c] = [@ EXCEPT !.map = Drop(@, name),
                                     !.queue = Without(@, name)]]

\* the caches when loader.load raises (line 374): the exception leaves
\* get_template before line 376, so they are as the lookup left them
KeptOnFailure(cs, c, name) == cs

\* the globals argument as a mapping: None gives no name
Given(g) == IF g = <<>> THEN EmptyMap ELSE g[1]

\* e.get_template(name, globals=g), parent being None
get_template(e, name, g, out) ==
    LET env == envs[e]
        c == env.cache
        template == IF c = NoObject THEN NoObject ELSE CacheGet(caches[c], name)
        looked == IF c = NoObject THEN caches
                  ELSE [caches EXCEPT ![c] = CacheAfterGet(@, name)]
        fresh == Len(tmpls) + 1
        victim == IF c = NoObject THEN "" ELSE CacheVictim(looked[c], name)
        what == Decision(e, template)
    IN  /\ e \in 1..Len(envs)
        /\ UNCHANGED <<envs, csize>>
        /\ UNCHANGED tvars
        /\ IF what = "noloader"
           THEN /\ UNCHANGED <<caches, regs, tmpls, got, uses>>
                /\ last' = Outcome("get_template", e, NoObject, name, Given(g), "TypeError",
                                   NoObject, 0, got[e][name], NoObject)
           ELSE IF what = "hit"
           THEN /\ UNCHANGED <<regs, tmpls>>
                /\ caches' = looked
                /\ got' = GotAfter(e, name, template, NoObject, "")
                /\ uses' = UsesAfter(c, name)
                /\ last' = Outcome("get_template", e, NoObject, name, Given(g), "",
                                   template, 0, got[e][name], template)
           ELSE IF out = "notfound"
           THEN /\ UNCHANGED <<tmpls, got>>
                /\ regs' = RegsAfterMakeGlobals(e, g)
                /\ caches' = KeptOnFailure(looked, c, name)
                /\ uses' = IF template = NoObject THEN uses ELSE UsesAfter(c, name)
                /\ last' = Outcome("get_template", e, NoObject, name, Given(g),
                                   "TemplateNotFound", NoObject, 1, got[e][name], template)
           ELSE /\ regs' = RegsAfterMakeGlobals(e, g)
                /\ tmpls' = Append(tmpls, Loaded(e, name, MakeGlobalsRef(e, g), out))
                /\ caches' = Stored(looked, c, name, fresh)
                /\ got' = GotAfter(e, name, fresh, c, victim)
                /\ uses' = UsesAfter(c, name)
                /\ last' = Outcome("get_template", e, NoObject, name, Given(g), "",
                                   fresh, 1, got[e][name], template)

\* the source of a loaded template changes: its uptodate callable, if it
\* has one, answers False from now on
SourceChanges(t) ==
    /\ t \in 1..Len(tmpls)
    /\ tmpls[t].uptodate = "fresh"
    /\ tmpls' = [tmpls EXCEPT ![t].uptodate = "stale"]
    /\ last' = Outcome("source_changes", NoObject, NoObject, tmpls[t].name, EmptyMap, "",
                       t, 0, NoObject, NoObject)
    /\ UNCHANGED <<envs, caches, regs, got, csize, uses>>
    /\ UNCHANGED tvars

----------------------------------------------------------------------------
(* The caller changes a registry of an environment in place:               *)
(* env.filters[key] = value, del env.filters[key]                          *)

Registries == {"filters", "tests", "globals"}

SetItem(e, registry, key, value) ==
    /\ e \in 1..Len(envs)
    /\ regs' = [regs EXCEPT ![envs[e][registry]] = Put(@, key, value)]
    /\ last' = Outcome("setitem", e, NoObject, registry, [key |-> key], "", NoObject, 0, NoObject, NoObject)
    /\ UNCHANGED <<envs, caches, tmpls, got, csize, uses>>
    /\ UNCHANGED tvars

DelItem(e, registry, key) ==
    /\ e \in 1..Len(envs)
    /\ key \in DOMAIN regs[envs[e][registry]]
    /\ regs' = [regs EXCEPT ![envs[e][registry]] = Drop(@, key)]
    /\ last' = Outcome("delitem", e, NoObject, registry, [key |-> key], "", NoObject, 0, NoObject, NoObject)
    /\ UNCHANGED <<envs, caches, tmpls, got, csize, uses>>
    /\ UNCHANGED tvars

----------------------------------------------------------------------------
(* Specifications *)

Init ==
    /\ envs = <<>>
    /\ caches = <<>>
    /\ regs = <<>>
    /\ tmpls = <<>>
    /\ got = <<>>
    /\ csize = <<>>
    /\ uses = <<>>
    /\ last = Outcome("init", NoObject, NoObject, "", EmptyMap, "", NoObject, 0, NoObject, NoObject)
    /\ pool = NewLRUCache(PoolSize)
    /\ ctxs = <<>>
    /\ modules = <<>>
    /\ cached_module = EmptyMap
    /\ streams = <<>>
    /\ yielded = <<>>
    /\ gens = <<>>

Loaders == {PyNone, "loader"}

\* one environment, built with or without a loader, with each kind of
\* cache, reloading or not
CacheArgs ==
    {[DefaultArgs EXCEPT !.loader = l, !.cache_size = s, !.auto_reload = r] :
        l \in Loaders, s \in CacheSizes, r \in BOOLEAN}

Next ==
    \/ \E args \in CacheArgs : envs = <<>> /\ NewEnvironment(args)
    \/ \E e \in 1..Len(envs), n \in Names, out \in LoaderOutcomes :
          get_template(e, n, <<>>, out) /\ Len(tmpls') <= MaxTmpls
    \/ \E t \in 1..Len(tmpls) : SourceChanges(t)

Spec == Init /\ [][Next]_vars

----------------------------------------------------------------------------
(* An environment with a loader, and overlays of it and of its overlays    *)

SharedArgs ==
    {[DefaultArgs EXCEPT !.loader = "loader", !.cache_size = s, !.auto_reload = r] :
        s \in CacheSizes, r \in BOOLEAN}

SharedOverrides ==
    {EmptyMap, [loader |-> PyNone]}
        \cup {[cache_size |-> s] : s \in CacheSizes}
        \cup {[auto_reload |-> r] : r \in BOOLEAN}

NextShared ==
    \/ \E args \in SharedArgs : envs = <<>> /\ NewEnvironment(args)
    \/ \E p \in 1..Len(envs), kw \in SharedOverrides :
          Len(envs) < MaxEnvs /\ Overlay(p, kw)
    \/ \E e \in 1..Len(envs), out \in {"check", "notfound"} :
          get_template(e, "a", <<>>, out) /\ Len(tmpls') <= MaxSharedTmpls
    \/ \E t \in 1..Len(tmpls) : SourceChanges(t)

SpecShared == Init /\ [][NextShared]_vars

----------------------------------------------------------------------------
(* Template acquisition: the claims *)

LastGet == last.op = "get_template"
LastEnv == envs[last.env]
CacheOf(e) == caches[envs[e].cache]
Cached(e) ==
    IF envs[e].cache = NoObject THEN {}
    ELSE {CacheOf(e).map[n] : n \in DOMAIN CacheOf(e).map}

\* C2: with a cache and auto_reload = false, a get_template(name) that
\* follows a successful one, the entry not evicted in between, returns the
\* same template object and does not invoke the loader, stale or not.
C2_SameTemplateWithoutReload ==
    (LastGet /\ csize[last.env] # 0 /\ ~ LastEnv.auto_reload /\ last.prev # NoObject)
        => (last.err = "" /\ last.result = last.prev /\ last.loads = 0)

\* C3: with a cache and auto_reload = true, get_template(name) returns the
\* cached template exactly when there is one and it is up to date; otherwise
\* the loader is invoked and, when it delivers, its template replaces the
\* entry and is returned: the template found stale is never returned.
C3_ReloadWhenStale ==
    (LastGet /\ csize[last.env] # 0 /\ LastEnv.auto_reload /\ LastEnv.loader # PyNone)
        => IF last.cached # NoObject /\ is_up_to_date(tmpls[last.cached])
           THEN last.err = "" /\ last.result = last.cached /\ last.loads = 0
           ELSE /\ last.loads = 1
                /\ last.err = ""
                    => /\ last.result = Len(tmpls)
                       /\ last.result # last.cached
                       /\ CacheGet(CacheOf(last.env), last.name) = last.result

C3_Witness ==
    /\ LastGet /\ csize[last.env] # 0 /\ LastEnv.auto_reload
    /\ last.cached # NoObject /\ ~ is_up_to_date(tmpls[last.cached])
    /\ last.err = "" /\ last.result # last.cached

\* C4: with cache_size = 0 there is no cache: every get_template invokes
\* the loader once and returns what it built, an object other than the one
\* returned before, and nothing is kept.
C4_NoCache ==
    (LastGet /\ csize[last.env] = 0 /\ LastEnv.loader # PyNone)
        => /\ LastEnv.cache = NoObject
           /\ last.loads = 1
           /\ last.err = "" => (last.result = Len(tmpls) /\ last.result # last.prev)

C4_Witness ==
    /\ LastGet /\ csize[last.env] = 0 /\ last.err = ""
    /\ last.prev # NoObject /\ last.result # last.prev
    /\ tmpls[last.prev].name = last.name

\* C6: without a loader get_template fails with the no-loader error, also
\* when the cache holds a current entry for the name, and the cache is as
\* it was before the call.
C6_NoLoader ==
    [][(last'.op = "get_template" /\ envs[last'.env].loader = PyNone)
          => (last'.err = "TypeError" /\ last'.result = NoObject
              /\ caches' = caches /\ tmpls' = tmpls)]_vars

C6_Witness ==
    /\ LastGet /\ LastEnv.loader = PyNone /\ last.err = "TypeError"
    /\ LastEnv.cache # NoObject
    /\ last.name \in DOMAIN CacheOf(last.env).map
    /\ is_up_to_date(tmpls[CacheOf(last.env).map[last.name]])

\* C8: an overlay and its parent never hold the same template in their
\* caches: what get_template stores through one is not in the other's.
C8_OverlayOwnsItsCache ==
    \A o \in 1..Len(envs) :
        envs[o].overlay => Cached(o) \cap Cached(envs[o].linked_to) = {}

----------------------------------------------------------------------------
(* The bounded cache: one environment with an LRUCache, three names *)

LruArgs ==
    {[DefaultArgs EXCEPT !.loader = "loader", !.cache_size = s, !.auto_reload = r] :
        s \in 1..MaxLruSize, r \in BOOLEAN}

NextLRU ==
    \/ \E args \in LruArgs : envs = <<>> /\ NewEnvironment(args)
    \/ \E e \in 1..Len(envs), n \in AllNames, out \in {"check", "notfound"} :
          get_template(e, n, <<>>, out) /\ Len(tmpls') <= MaxLruTmpls
    \/ \E t \in 1..Len(tmpls) : SourceChanges(t)

SpecLRU == Init /\ [][NextLRU]_vars

\* the last k entries of a sequence, as a set
LastOf(q, k) == {q[i] : i \in (Len(q) - k + 1)..Len(q)}
Min(a, b) == IF a < b THEN a ELSE b

\* C5: a cache of size N > 0 never holds more than N templates, and it
\* holds those of the N names used last, a use being a get_template that
\* finds the name in the cache or stores it: what a store into a full cache
\* drops is the least recently used entry.
C5_LeastRecentlyUsedEvicted ==
    \A e \in 1..Len(envs) :
        csize[e] > 0 =>
            /\ envs[e].cache # NoObject
            /\ Cardinality(DOMAIN CacheOf(e).map) <= csize[e]
            /\ DOMAIN CacheOf(e).map =
                  LastOf(uses[envs[e].cache], Min(csize[e], Len(uses[envs[e].cache])))

\* a, b loaded into a cache of size 2, a hit, c loaded: b is dropped
C5_Witness ==
    /\ LastGet /\ csize[last.env] = 2 /\ last.name = "c" /\ last.loads = 1
    /\ Len(tmpls) = 3
    /\ tmpls[1].name = "a" /\ tmpls[2].name = "b" /\ tmpls[3].name = "c"
    /\ uses[LastEnv.cache] = <<"b", "a", "c">>
    /\ DOMAIN CacheOf(last.env).map = {"a", "c"}

----------------------------------------------------------------------------
(* Construction and overlay: environments of every marker combination,     *)
(* with extensions, and overlays of them                                   *)

Markers == {"{%", "{{", "{#"}

\* extension classes; ExtA and ExtB declare the same identifier
ExtA == [cls |-> "A", identifier |-> "x"]
ExtB == [cls |-> "B", identifier |-> "x"]
ExtC == [cls |-> "C", identifier |-> "y"]

ConfigArgs ==
    {[DefaultArgs EXCEPT !.block_start_string = b, !.variable_start_string = v,
                         !.comment_start_string = c] :
        b \in Markers, v \in Markers, c \in Markers}
    \cup {[DefaultArgs EXCEPT !.extensions = <<ExtA, ExtC>>]}
    \cup {[DefaultArgs EXCEPT !.undefined = u] : u \in {"StrictUndefined", "object"}}

ConfigOverrides ==
    {Update(Update(a, b), c) :
        a \in {EmptyMap} \cup {[variable_start_string |-> m] : m \in {"{#", "<%"}},
        b \in {EmptyMap, [trim_blocks |-> TRUE]},
        c \in {EmptyMap} \cup {[cache_size |-> n] : n \in {0, -1}}}
    \cup {[extensions |-> <<>>], [extensions |-> <<ExtB>>],
          [extensions |-> <<ExtB>>, trim_blocks |-> TRUE]}
    \cup {[block_start_string |-> "{{"], [block_end_string |-> "}}"],
          [variable_end_string |-> "%>"], [comment_start_string |-> "{%"],
          [comment_end_string |-> "%}"], [line_statement_prefix |-> "#"],
          [optimized |-> FALSE], [undefined |-> "object"],
          [finalize |-> "escape"], [autoescape |-> TRUE],
          [loader |-> "loader"], [auto_reload |-> FALSE]}

NextConfig ==
    \/ \E args \in ConfigArgs : Len(envs) < MaxConfigEnvs /\ NewEnvironment(args)
    \/ \E p \in 1..Len(envs), kw \in ConfigOverrides :
          Len(envs) < MaxConfigEnvs /\ Overlay(p, kw)

SpecConfig == Init /\ [][NextConfig]_vars

\* two of the three start strings of the arguments are the same
StartStringsCoincide(args) ==
    \/ args.block_start_string = args.variable_start_string
    \/ args.variable_start_string = args.comment_start_string
    \/ args.block_start_string = args.comment_start_string

\* C1: constructing an Environment fails when two of its block, variable
\* and comment start strings are equal, whichever two, and no environment
\* built by the constructor has two equal ones.
C1_StartStringsDistinct ==
    /\ (last.op = "new" /\ StartStringsCoincide(last.kw)) => last.err = "AssertionError"
    /\ \A e \in 1..Len(envs) : ~ envs[e].overlay => ~ StartStringsCoincide(envs[e])

\* the fields overlay() copies from the parent whatever the overrides
CopiedNames == {"filters", "tests", "globals", "sandboxed", "shared"}

KeepsChecked(kw) ==
    DOMAIN kw \cap {"block_start_string", "variable_start_string",
                    "comment_start_string", "undefined"} = {}

\* C10: overlay(extensions=E), E not empty, returns an overlay whose
\* extensions are the parent's, each bound to the overlay, and over them
\* those of E, bound to the overlay.
C10_OverlayAddsExtensions ==
    (/\ last.op = "overlay" /\ "extensions" \in DOMAIN last.kw
     /\ KeepsChecked(last.kw))
        => (last.kw.extensions # <<>>
              => /\ last.err = ""
                 /\ envs[last.env].extensions =
                       Update([k \in DOMAIN envs[last.parent].extensions |->
                                  Bind(envs[last.parent].extensions[k], last.env)],
                              load_extensions(last.env, last.kw.extensions)))

----------------------------------------------------------------------------
(* Registries: environments, overlays, and callers changing their filters, *)
(* tests and globals in place                                              *)

RegKeys == {"upper", "extra"}

\* how many entries of the registries differ from the defaults
Changed(r) ==
    LET default == IF r % 3 = 1 THEN DEFAULT_FILTERS
                   ELSE IF r % 3 = 2 THEN DEFAULT_TESTS ELSE DEFAULT_NAMESPACE
    IN  Cardinality({k \in DOMAIN regs'[r] \cup DOMAIN default :
                        k \notin DOMAIN regs'[r] \/ k \notin DOMAIN default
                        \/ regs'[r][k] # default[k]})

RECURSIVE Changes(_)
Changes(r) == IF r = 0 THEN 0 ELSE Changed(r) + Changes(r - 1)

NextRegistry ==
    \/ Len(envs) < MaxRegEnvs /\ NewEnvironment(DefaultArgs)
    \/ \E p \in 1..Len(envs), kw \in {EmptyMap, [trim_blocks |-> TRUE]} :
          Len(envs) < MaxRegEnvs /\ Overlay(p, kw)
    \/ \E e \in 1..Len(envs), r \in Registries, k \in RegKeys :
          SetItem(e, r, k, "custom") /\ Changes(Len(regs)) <= MaxRegChanges
    \/ \E e \in 1..Len(envs), r \in Registries, k \in RegKeys :
          DelItem(e, r, k) /\ Changes(Len(regs)) <= MaxRegChanges

SpecRegistry == Init /\ [][NextRegistry]_vars

LastChange == last.op \in {"setitem", "delitem"}

\* C9: adding, replacing or removing an entry of an overlay's filters,
\* tests or globals leaves the same registry of its base as it was.
C9_OverlayRegistryIsolated ==
    [][(last'.op \in {"setitem", "delitem"} /\ envs[last'.env].overlay)
          => LET base == envs[envs[last'.env].linked_to]
             IN  regs'[base[last'.name]] = regs[base[last'.name]]]_vars

\* C9, as the code has it: an overlay holds the very registries of its
\* base, so after any change made through either, both have the same
\* entries; an environment built by the constructor has registries of its
\* own, which a change made through another environment leaves alone.
C9_OverlaySharesRegistries ==
    /\ \A o \in 1..Len(envs) :
          envs[o].overlay =>
             \A r \in Registries :
                /\ envs[o][r] = envs[envs[o].linked_to][r]
                /\ regs[envs[o][r]] = regs[envs[envs[o].linked_to][r]]
    /\ \A e \in 1..Len(envs), f \in 1..Len(envs), r \in Registries, q \in Registries :
          (~ envs[e].overlay /\ ~ envs[f].overlay /\ <<e, r>> # <<f, q>>)
             => envs[e][r] # envs[f][q]

C9_Witness ==
    /\ LastChange /\ envs[last.env].overlay
    /\ regs[envs[last.env][last.name]] #
          (IF last.name = "filters" THEN DEFAULT_FILTERS
           ELSE IF last.name = "tests" THEN DEFAULT_TESTS ELSE DEFAULT_NAMESPACE)
    /\ Len(envs) = 2

----------------------------------------------------------------------------
(* compile: parse, optimize, generate, and the native compile step *)

\* the sources a caller passes: template text, or a node tree
TextOk == [kind |-> "text", text |-> "hello"]
TextBad == [kind |-> "text", text |-> "{% if"]
\* filename = None
NoFilename == [type |-> "NoneType", text |-> ""]
Node == [kind |-> "node", of |-> "hello", filename |-> NoFilename]
Sources == {TextOk, TextBad, Node}

\* file names: None, a byte string, a unicode string
Filenames == {NoFilename, [type |-> "str", text |-> "t.html"],
              [type |-> "unicode", text |-> "t.html"]}
TemplateNames == {PyNone, "t"}

\* isinstance(source, basestring)
IsBaseString(source) == source.kind = "text"

\* Parser(self, source, filename).parse(): the node tree, or the error
ParseFails(source) == source = TextBad
parse(e, source, filename) ==
    [kind |-> "node", of |-> source.text, filename |-> filename]

\* optimize(node, environment), generate(node, environment, name, filename)
optimize(node, e) == [kind |-> "optimized", node |-> node]
generate(node, e, name, filename) ==
    [kind |-> "python", node |-> node, name |-> name, filename |-> filename]

\* a local variable no assignment has bound
Unbound == [kind |-> "unbound"]
Nothing == [kind |-> "none"]

\* the value of the local variable node when generate is called
\* (lines 328-330): bound only when the environment optimizes
NodeForGenerate(e, source) ==
    IF envs[e].optimized THEN optimize(source, e) ELSE Unbound

\* the file name the native compile step is given (lines 333-336)
CodeFilename(filename) ==
    IF filename = NoFilename THEN [type |-> "str", text |-> "<template>"]
    ELSE IF filename.type = "unicode" THEN [type |-> "str", text |-> filename.text]
    ELSE filename

\* the outcome of e.compile(source, name, filename, raw)
CompileOutcome(e, source, name, filename, raw) ==
    LET parsed == IF IsBaseString(source) THEN parse(e, source, filename) ELSE source
        node == NodeForGenerate(e, parsed)
        python == generate(node, e, name, filename)
    IN  IF IsBaseString(source) /\ ParseFails(source)
        THEN [err |-> "TemplateSyntaxError", result |-> Nothing, parsed |-> Nothing,
              optimizer |-> FALSE, generated |-> Nothing]
        ELSE IF node = Unbound
        THEN [err |-> "UnboundLocalError", result |-> Nothing, parsed |-> parsed,
              optimizer |-> envs[e].optimized, generated |-> Nothing]
        ELSE [err |-> "", parsed |-> parsed,
              optimizer |-> envs[e].optimized, generated |-> node,
              result |-> IF raw THEN python
                         ELSE [kind |-> "code", source |-> python,
                               filename |-> CodeFilename(filename)]]

\* e.compile(source, name, filename, raw)
Compile(e, source, name, filename, raw) ==
    /\ e \in 1..Len(envs)
    /\ last' = [op |-> "compile", env |-> e, source |-> source, name |-> name,
                filename |-> filename, raw |-> raw,
                out |-> CompileOutcome(e, source, name, filename, raw)]
    /\ UNCHANGED <<envs, caches, regs, tmpls, got, csize, uses>>
    /\ UNCHANGED tvars

CompileArgs ==
    {[DefaultArgs EXCEPT !.optimized = o, !.trim_blocks = t] :
        o \in BOOLEAN, t \in BOOLEAN}

NextCompile ==
    \/ \E args \in CompileArgs : envs = <<>> /\ NewEnvironment(args)
    \/ \E e \in 1..Len(envs), source \in Sources, name \in TemplateNames,
          filename \in Filenames, raw \in BOOLEAN :
          Compile(e, source, name, filename, raw)

SpecCompile == Init /\ [][NextCompile]_vars

\* C11: compile of a source that parses succeeds whatever the optimize
\* flag: with the flag the code generator receives the optimizer's output,
\* without it the optimizer is not invoked and the generator receives the
\* parsed tree; raw returns the generated form, otherwise the compiled unit.
C11_CompileBothModes ==
    (last.op = "compile" /\ last.out.err # "TemplateSyntaxError")
        => /\ last.out.err = ""
           /\ last.out.optimizer = envs[last.env].optimized
           /\ last.out.generated =
                 IF envs[last.env].optimized
                 THEN optimize(last.out.parsed, last.env) ELSE last.out.parsed
           /\ IF last.raw
              THEN last.out.result =
                      generate(last.out.generated, last.env, last.name, last.filename)
              ELSE /\ last.out.result.kind = "code"
                   /\ last.out.result.source =
                         generate(last.out.generated, last.env, last.name, last.filename)

----------------------------------------------------------------------------
(* The pool of spontaneous environments *)

\* a finalize callable that cannot be hashed makes the argument tuple
\* unhashable; every other argument the callers pass here is hashable
Hashable(args) == args.finalize # "unhashable"

\* the argument tuples Template.__new__ passes (lines 439-443): no loader,
\* no cache, no reload; a variable start string equal to the block start
\* string fails the sanity check
PoolArgs ==
    {[DefaultArgs EXCEPT !.loader = PyNone, !.cache_size = 0, !.auto_reload = FALSE,
                         !.trim_blocks = t, !.finalize = f,
                         !.variable_start_string = v] :
        t \in BOOLEAN, f \in {PyNone, "escape", "unhashable"}, v \in {"{{", "{%"}}

\* a lookup that never finds an entry
PoolLookup_m0(args) ==
    IF ~ Hashable(args) THEN "TypeError" ELSE "absent"

\* a lookup that hashes every tuple
PoolLookup_m1(args) ==
    IF CacheGet(pool, args) # NoObject THEN "found" ELSE "absent"

\* _spontaneous_environments.get(args) (lines 31-36): TypeError for an
\* unhashable tuple, else the entry found or none
PoolLookup(args) ==
    IF ~ Hashable(args) THEN "TypeError"
    ELSE IF CacheGet(pool, args) # NoObject THEN "found"
    ELSE "absent"

\* get_spontaneous_environment(*args)
get_spontaneous_environment(args) ==
    LET self == Len(envs) + 1
        rv == InitFields(self, args)
        what == PoolLookup(args)
        looked == IF what = "TypeError" THEN pool ELSE CacheAfterGet(pool, args)
        call(err, result, built) ==
            [op |-> "get_spontaneous_environment", args |-> args, err |-> err,
             result |-> result, built |-> built]
    IN  /\ UNCHANGED <<tmpls, ctxs, modules, cached_module, streams, yielded, gens>>
        /\ IF what = "found"
           THEN /\ pool' = looked
                /\ last' = call("", CacheGet(pool, args), FALSE)
                /\ UNCHANGED <<envs, regs, caches, got, csize, uses>>
           ELSE IF ~ _environment_sanity_check(rv)
           THEN /\ pool' = looked
                /\ last' = call("AssertionError", NoObject, FALSE)
                /\ UNCHANGED <<envs, regs, caches, got, csize, uses>>
           ELSE /\ envs' = Append(envs, [rv EXCEPT !.shared = (what = "absent")])
                /\ regs' = regs \o <<DEFAULT_FILTERS, DEFAULT_TESTS, DEFAULT_NAMESPACE>>
                /\ caches' = CachesAfterCreate(args.cache_size)
                /\ got' = Append(got, NoGot)
                /\ csize' = Append(csize, args.cache_size)
                /\ uses' = IF Len(caches') > Len(caches) THEN Append(uses, <<>>) ELSE uses
                /\ pool' = IF what = "absent" THEN CacheAfterSet(looked, args, self)
                           ELSE pool
                /\ last' = call("", self, TRUE)

NextPool ==
    \E args \in PoolArgs :
        get_spontaneous_environment(args) /\ Len(envs') <= MaxPoolEnvs

SpecPool == Init /\ [][NextPool]_vars

LastPool == last.op = "get_spontaneous_environment"

\* C12: for a hashable argument tuple, a call that finds the tuple in the
\* pool returns the environment the pool holds for it, the one an earlier
\* call with that tuple built, and builds none; a call that does not find
\* it builds one and puts it in the pool; either way the environment
\* returned has shared = true, as has every environment in the pool.
C12_PoolReturnsSameShared ==
    [][(last'.op = "get_spontaneous_environment" /\ Hashable(last'.args)
        /\ last'.err = "")
          => /\ envs'[last'.result].shared
             /\ pool'.map[last'.args] = last'.result
             /\ \A a \in DOMAIN pool'.map : envs'[pool'.map[a]].shared
             /\ IF last'.args \in DOMAIN pool.map
                THEN /\ last'.result = pool.map[last'.args]
                     /\ ~ last'.built /\ envs' = envs
                ELSE last'.built /\ last'.result = Len(envs) + 1]_vars

\* the second call with a tuple returns the environment the first built
C12_Witness ==
    /\ LastPool /\ Hashable(last.args) /\ last.err = "" /\ ~ last.built
    /\ envs[last.result].shared /\ last.result < Len(envs)

\* C13: for an unhashable argument tuple every call builds a new
\* environment, distinct from all earlier ones, with shared = false, and
\* leaves the pool as it was.
C13_UnhashableBypassesPool ==
    [][(last'.op = "get_spontaneous_environment" /\ ~ Hashable(last'.args)
        /\ last'.err = "")
          => /\ last'.built /\ last'.result = Len(envs) + 1
             /\ Len(envs') = Len(envs) + 1
             /\ ~ envs'[last'.result].shared
             /\ pool' = pool]_vars

\* two calls with the same unhashable tuple have built two environments
C13_Witness ==
    /\ LastPool /\ ~ Hashable(last.args) /\ last.err = ""
    /\ last.result > 1
    /\ \E e \in 1..(last.result - 1) :
          /\ envs[e].finalize = "unhashable" /\ ~ envs[e].shared
          /\ envs[e].trim_blocks = envs[last.result].trim_blocks
    /\ pool.map # EmptyMap

----------------------------------------------------------------------------
(* subscribe: attribute, then item, then undefined *)

\* what getattr(obj, name) and obj[key] do on an object: deliver a value,
\* or raise an error of some class
AttrOutcomes == {"value", "AttributeError", "UnicodeError", "RuntimeError"}
ItemOutcomes == {"value", "TypeError", "KeyError", "IndexError", "ValueError"}
Objects == {[attr |-> a, item |-> i] : a \in AttrOutcomes, i \in ItemOutcomes}

\* the keys: str(key) raises UnicodeEncodeError for a unicode key that is
\* not ASCII
Keys == {[text |-> "name", ascii |-> TRUE], [text |-> "missing", ascii |-> TRUE],
         [text |-> "nom", ascii |-> FALSE]}

\* the classes an error is an instance of
ClassesOf(err) ==
    IF err \in {"KeyError", "IndexError"} THEN {err, "LookupError"}
    ELSE IF err = "UnicodeEncodeError" THEN {err, "UnicodeError", "ValueError"}
    ELSE IF err = "UnicodeError" THEN {err, "ValueError"}
    ELSE {err}

\* except (classes): does the handler take the error
Catches(classes, err) == ClassesOf(err) \cap classes # {}

\* what getattr(obj, str(argument)) raises, "" when it returns
AttrError(obj, argument) ==
    IF ~ argument.ascii THEN "UnicodeEncodeError"
    ELSE IF obj.attr = "value" THEN "" ELSE obj.attr

\* what obj[argument] raises, "" when it returns
ItemError(obj, argument) ==
    IF obj.item = "value" THEN "" ELSE obj.item

\* the outcome of e.subscribe(obj, argument) (lines 281-287)
SubscribeOutcome(e, obj, argument) ==
    IF AttrError(obj, argument) = ""
    THEN [err |-> "", kind |-> "attribute", cls |-> "", obj |-> obj, name |-> argument]
    ELSE IF ~ Catches({"AttributeError", "UnicodeError"}, AttrError(obj, argument))
    THEN [err |-> AttrError(obj, argument), kind |-> "", cls |-> "", obj |-> obj,
          name |-> argument]
    ELSE IF ItemError(obj, argument) = ""
    THEN [err |-> "", kind |-> "item", cls |-> "", obj |-> obj, name |-> argument]
    ELSE IF ~ Catches({"TypeError", "LookupError"}, ItemError(obj, argument))
    THEN [err |-> ItemError(obj, argument), kind |-> "", cls |-> "", obj |-> obj,
          name |-> argument]
    ELSE [err |-> "", kind |-> "undefined", cls |-> envs[e].undefined, obj |-> obj,
          name |-> argument]

\* e.subscribe(obj, argument)
Subscribe(e, obj, argument) ==
    /\ e \in 1..Len(envs)
    /\ last' = [op |-> "subscribe", env |-> e, obj |-> obj, argument |-> argument,
                out |-> SubscribeOutcome(e, obj, argument)]
    /\ UNCHANGED <<envs, caches, regs, tmpls, got, csize, uses>>
    /\ UNCHANGED tvars

SubscribeArgs ==
    {[DefaultArgs EXCEPT !.undefined = u] : u \in UndefinedSubclasses}

NextSubscribe ==
    \/ \E args \in SubscribeArgs : envs = <<>> /\ NewEnvironment(args)
    \/ \E e \in 1..Len(envs), obj \in Objects, argument \in Keys :
          Subscribe(e, obj, argument)

SpecSubscribe == Init /\ [][NextSubscribe]_vars

\* C14: subscribe(obj, key) returns a value for every object and key,
\* whatever error the attribute access or the item access fails with: the
\* attribute, else the item, else an instance of the environment's
\* undefined class carrying obj and key; no error reaches the caller.
C14_SubscribeTotal ==
    last.op = "subscribe"
        => /\ last.out.err = ""
           /\ last.out.kind =
                 IF AttrError(last.obj, last.argument) = "" THEN "attribute"
                 ELSE IF ItemError(last.obj, last.argument) = "" THEN "item"
                 ELSE "undefined"
           /\ last.out.kind = "undefined"
                 => /\ last.out.cls = envs[last.env].undefined
                    /\ last.out.obj = last.obj /\ last.out.name = last.argument

----------------------------------------------------------------------------
(* Contexts: Template.new_context *)

\* the mappings a caller passes as vars; regs holds every dict
CallerMaps == {[x |-> "caller"], [range |-> "caller", y |-> "caller"]}
TemplateGlobals == {<<>>, <<[x |-> "global"]>>}

\* the dicts callers have passed to new_context so far
CallerDicts == {ctxs[c].vars : c \in 1..Len(ctxs)} \ {NoObject}

\* a new_context that merges the globals into the caller's mapping
ContextParent_m0(t, mapping, shared, dicts) ==
    IF shared THEN [ref |-> mapping, dicts |-> dicts]
    ELSE [ref |-> mapping,
          dicts |-> [dicts EXCEPT ![mapping] = Update(dicts[tmpls[t].globals], @)]]

\* lines 523-526: the parent namespace of the context and the dicts after
\* it is chosen; mapping is the dict vars names by now
ContextParent(t, mapping, shared, dicts) ==
    IF shared THEN [ref |-> mapping, dicts |-> dicts]
    ELSE [ref |-> Len(dicts) + 1,
          dicts |-> Append(dicts, Update(dicts[tmpls[t].globals], dicts[mapping]))]

\* t.new_context(vars, shared): given is <<>> for vars = None, <<"new", m>>
\* for a mapping m the caller builds for the call, <<"old", d>> for a dict d
\* the caller has at hand.  The context records, as history, the dict the
\* caller passed and the shared flag.
ContextBuilt(t, given, shared) ==
    LET fresh == given = <<>> \/ given[1] = "new"
        made == IF given = <<>> THEN Append(regs, EmptyMap)
                ELSE IF given[1] = "new" THEN Append(regs, given[2])
                ELSE regs
        mapping == IF fresh THEN Len(regs) + 1 ELSE given[2]
        parent == ContextParent(t, mapping, shared, made)
    IN  [dicts |-> parent.dicts,
         passed |-> IF given = <<>> THEN EmptyMap ELSE made[mapping],
         ctx |-> [parent |-> parent.ref, name |-> tmpls[t].name,
                  vars |-> IF given = <<>> THEN NoObject ELSE mapping,
                  shared |-> shared, exported_vars |-> {}]]

new_context(t, given, shared) ==
    LET built == ContextBuilt(t, given, shared)
    IN  /\ t \in 1..Len(tmpls)
        /\ regs' = built.dicts
        /\ ctxs' = Append(ctxs, built.ctx)
        /\ last' = [op |-> "new_context", template |-> t,
                    vars |-> built.ctx.vars, passed |-> built.passed,
                    shared |-> shared, ctx |-> Len(ctxs) + 1]
        /\ UNCHANGED <<envs, caches, tmpls, got, csize, uses>>
        /\ UNCHANGED <<pool, modules, cached_module, streams, yielded, gens>>

\* the caller changes a mapping it passed: d[key] = value
DictSetItem(d, key, value) ==
    /\ d \in 1..Len(regs)
    /\ regs' = [regs EXCEPT ![d] = Put(@, key, value)]
    /\ last' = [op |-> "dict_setitem", dict |-> d, key |-> key]
    /\ UNCHANGED <<envs, caches, tmpls, got, csize, uses>>
    /\ UNCHANGED tvars

ContextArgs == {[DefaultArgs EXCEPT !.loader = "loader", !.cache_size = s] :
                   s \in {0, -1}}

NextContext ==
    \/ \E args \in ContextArgs : envs = <<>> /\ NewEnvironment(args)
    \/ \E e \in 1..Len(envs), g \in TemplateGlobals :
          get_template(e, "a", g, "nocheck") /\ Len(tmpls') <= MaxCtxTmpls
    \/ \E t \in 1..Len(tmpls), shared \in BOOLEAN,
          given \in {<<>>} \cup {<<"new", m>> : m \in CallerMaps}
                           \cup {<<"old", d>> : d \in CallerDicts} :
          Len(ctxs) < MaxCtxs /\ new_context(t, given, shared)
    \/ \E d \in CallerDicts : DictSetItem(d, "z", "changed")

SpecContext == Init /\ [][NextContext]_vars

\* C15: new_context leaves every existing mapping, the caller's and the
\* template's globals among them, as it was.  With shared = false the
\* context gets a new mapping holding every global and every caller
\* variable, the caller's value winning; with shared = true its mapping is
\* the caller's mapping itself (so later changes to it show in the context)
\* and the globals are not merged in.
C15_ContextNamespace ==
    [][last'.op = "new_context" =>
          LET c == ctxs'[last'.ctx]
              globals == regs[tmpls[last'.template].globals]
              passed == last'.passed
          IN  /\ \A d \in 1..Len(regs) : regs'[d] = regs[d]
              /\ last'.vars # NoObject => regs'[last'.vars] = passed
              /\ IF last'.shared
                 THEN /\ last'.vars # NoObject => c.parent = last'.vars
                      /\ regs'[c.parent] = passed
                 ELSE /\ c.parent \notin 1..Len(regs)
                      /\ c.parent # last'.vars
                      /\ DOMAIN regs'[c.parent] = DOMAIN globals \cup DOMAIN passed
                      /\ \A k \in DOMAIN passed : regs'[c.parent][k] = passed[k]
                      /\ \A k \in DOMAIN globals \ DOMAIN passed :
                            regs'[c.parent][k] = globals[k]]_vars

\* one mapping passed to a shared and to an unshared context, then changed
\* by the caller: the shared context sees the change, the other does not
C15_Witness ==
    /\ last.op = "dict_setitem" /\ last.key = "z"
    /\ \E c \in 1..Len(ctxs), u \in 1..Len(ctxs) :
          /\ ctxs[c].shared /\ ctxs[c].parent = last.dict
          /\ "z" \in DOMAIN regs[ctxs[c].parent]
          /\ ~ ctxs[u].shared /\ ctxs[u].vars = last.dict
          /\ "z" \notin DOMAIN regs[ctxs[u].parent]
          /\ regs[ctxs[u].parent]["range"] = "caller"

----------------------------------------------------------------------------
(* The debug-line mapping: Template.debug_info, get_corresponding_lineno   *)
(* Strings are sequences of one-character strings.                         *)

DigitChars == <<"0", "1", "2", "3", "4", "5", "6", "7", "8", "9">>

\* '%s' % n for a natural number n
RECURSIVE Decimal(_)
Decimal(n) ==
    IF n < 10 THEN <<DigitChars[n + 1]>>
    ELSE Decimal(n \div 10) \o <<DigitChars[(n % 10) + 1]>>

\* the debug_info string the generated code carries:
\* '&'.join('%s=%s' % pair for pair in pairs)
RECURSIVE JoinPairs(_)
JoinPairs(pairs) ==
    IF pairs = <<>> THEN <<>>
    ELSE Decimal(pairs[1][1]) \o <<"=">> \o Decimal(pairs[1][2])
         \o (IF Len(pairs) = 1 THEN <<>> ELSE <<"&">> \o JoinPairs(Tail(pairs)))

\* s.split(sep), cur being the piece read so far
RECURSIVE SplitFrom(_, _, _)
SplitFrom(s, sep, cur) ==
    IF s = <<>> THEN <<cur>>
    ELSE IF Head(s) = sep THEN <<cur>> \o SplitFrom(Tail(s), sep, <<>>)
    ELSE SplitFrom(Tail(s), sep, Append(cur, Head(s)))

Split(s, sep) == SplitFrom(s, sep, <<>>)

\* int(s): defined for a non-empty string of digits
IntOk(s) ==
    s # <<>> /\ \A i \in 1..Len(s) : \E d \in 1..10 : DigitChars[d] = s[i]

RECURSIVE int(_)
int(s) ==
    IF s = <<>> THEN 0
    ELSE int(SubSeq(s, 1, Len(s) - 1)) * 10
         + (CHOOSE d \in 0..9 : DigitChars[d + 1] = s[Len(s)])

\* Template.debug_info (lines 571-575): the list of tuples, or ValueError
debug_info(template) ==
    LET pieces == Split(template._debug_info, "&")
        fields(i) == Split(pieces[i], "=")
    IN  IF \A i \in 1..Len(pieces) : \A j \in 1..Len(fields(i)) : IntOk(fields(i)[j])
        THEN [err |-> "",
              value |-> [i \in 1..Len(pieces) |->
                            [j \in 1..Len(fields(i)) |-> int(fields(i)[j])]]]
        ELSE [err |-> "ValueError", value |-> <<>>]

\* a scan from the first pair on
Scan_m0(info, i, lineno) ==
    IF \E j \in 1..Len(info) : info[j][2] <= lineno
    THEN info[CHOOSE j \in 1..Len(info) :
                 /\ info[j][2] <= lineno
                 /\ \A k \in 1..(j - 1) : info[k][2] > lineno][1]
    ELSE 1

\* the loop of lines 559-562 over reversed(info), at position i from the end
RECURSIVE Scan(_, _, _)
Scan(info, i, lineno) ==
    IF i = 0 THEN 1
    ELSE IF info[i][2] <= lineno THEN info[i][1]
    ELSE Scan(info, i - 1, lineno)

\* template.get_corresponding_lineno(lineno)
LinenoOutcome(template, lineno) ==
    LET info == debug_info(template)
    IN  IF info.err # "" THEN [err |-> info.err, result |-> 0]
        ELSE IF \E i \in 1..Len(info.value) : Len(info.value[i]) # 2
        THEN [err |-> "ValueError", result |-> 0]
        ELSE [err |-> "", result |-> Scan(info.value, Len(info.value), lineno)]

get_corresponding_lineno(t, lineno) ==
    /\ t \in 1..Len(tmpls)
    /\ last' = [op |-> "get_corresponding_lineno", template |-> t,
                lineno |-> lineno, out |-> LinenoOutcome(tmpls[t], lineno)]
    /\ UNCHANGED <<envs, caches, regs, tmpls, got, csize, uses>>
    /\ UNCHANGED tvars

\* the pairs (source line, generated line) the code generator may write
SourceLines == {3, 5}
GeneratedLines == {2, 10, 20}
Pairs == {<<s, g>> : s \in SourceLines, g \in GeneratedLines}

RECURSIVE PairLists(_)
PairLists(n) ==
    IF n = 0 THEN {<<>>}
    ELSE PairLists(n - 1)
         \cup {Append(l, p) : l \in {k \in PairLists(n - 1) : Len(k) = n - 1}, p \in Pairs}

\* one template, with any debug_info string of up to MaxPairs pairs
InitLineno ==
    /\ envs = <<>> /\ caches = <<>> /\ regs = <<>> /\ got = <<>>
    /\ csize = <<>> /\ uses = <<>>
    /\ pool = NewLRUCache(PoolSize)
    /\ ctxs = <<>> /\ modules = <<>> /\ cached_module = EmptyMap
    /\ streams = <<>> /\ yielded = <<>> /\ gens = <<>>
    /\ \E pairs \in PairLists(MaxPairs) :
          /\ tmpls = <<[name |-> "a", globals |-> NoObject, uptodate |-> "none",
                        _debug_info |-> JoinPairs(pairs)]>>
          /\ last = [op |-> "from_code", pairs |-> pairs]

NextLineno ==
    \E t \in 1..Len(tmpls), lineno \in 0..MaxLineno : get_corresponding_lineno(t, lineno)

SpecLineno == InitLineno /\ [][NextLineno]_vars

LastLineno == last.op = "get_corresponding_lineno"

\* the pairs are in the order of their generated lines
SortedByGenerated(info) ==
    \A i \in 1..Len(info), j \in 1..Len(info) : i < j => info[i][2] <= info[j][2]

----------------------------------------------------------------------------
(* TemplateStream.  A chunk is a string, a sequence of characters; the     *)
(* underlying generator is the sequence of its chunks and the number       *)
(* pulled from it so far.                                                  *)

\* concat(buf): u''.join(buf)
RECURSIVE concat(_)
concat(buf) == IF buf = <<>> THEN <<>> ELSE Head(buf) \o concat(Tail(buf))

Chunks == {<<>>, <<"a">>, <<"b">>}

RECURSIVE ChunkLists(_)
ChunkLists(n) ==
    IF n = 0 THEN {<<>>}
    ELSE ChunkLists(n - 1)
         \cup {Append(l, c) : l \in {k \in ChunkLists(n - 1) : Len(k) = n - 1},
                              c \in Chunks}

\* ten chunks of one character each
TenChunks == [i \in 1..10 |-> <<DigitChars[i]>>]

Underlying == ChunkLists(MaxChunks) \cup {TenChunks}
BufferSizes == {-1, 0, 1, 2, 3, 5}

\* self._gen.next as the adapter, and the generator enable_buffering makes:
\* just created, suspended at its yield, or finished
Unbuffered == [kind |-> "gen", size |-> 0, phase |-> "", buf |-> <<>>, c_size |-> 0]
Buffering(size) ==
    [kind |-> "buffer", size |-> size, phase |-> "created", buf |-> <<>>, c_size |-> 0]

\* a generator that counts every chunk towards the size
Counts_m0(c) ==
    TRUE

\* `if c:` (line 651): only a non-empty chunk counts
Counts(c) ==
    c # <<>>

\* a generator that ends at exhaustion whatever it has buffered
EndsStream_m0(c_size) ==
    TRUE

\* `if not c_size: return` (lines 654-655)
EndsStream(c_size) ==
    c_size = 0

\* the inner loop (lines 648-652): pull until c_size reaches size or the
\* underlying generator raises StopIteration
RECURSIVE Pull(_, _, _, _, _)
Pull(chunks, pos, size, buf, c_size) ==
    IF c_size >= size
    THEN [pos |-> pos, buf |-> buf, c_size |-> c_size, exhausted |-> FALSE]
    ELSE IF pos >= Len(chunks)
    THEN [pos |-> pos, buf |-> buf, c_size |-> c_size, exhausted |-> TRUE]
    ELSE Pull(chunks, pos + 1, size, Append(buf, chunks[pos + 1]),
              IF Counts(chunks[pos + 1]) THEN c_size + 1 ELSE c_size)

\* the record of a call on a stream
StreamCall(op, s, size, err, result, pulled) ==
    [op |-> op, stream |-> s, size |-> size, err |-> err, result |-> result,
     pulled |-> pulled]

StreamFrame ==
    /\ UNCHANGED <<envs, caches, regs, tmpls, got, csize, uses>>
    /\ UNCHANGED <<pool, ctxs, modules, cached_module, gens>>

\* TemplateStream(gen)
NewStream(chunks) ==
    /\ streams' = Append(streams, [_gen |-> [chunks |-> chunks, pos |-> 0],
                                   _next |-> Unbuffered, buffered |-> FALSE])
    /\ yielded' = Append(yielded, <<>>)
    /\ last' = StreamCall("new_stream", Len(streams) + 1, 0, "", <<>>, <<>>)
    /\ StreamFrame

\* a check that lets size 1 through
SizeTooSmall_m0(size) ==
    size < 1

\* `if size <= 1` (line 637)
SizeTooSmall(size) ==
    size <= 1

\* s.enable_buffering(size)
enable_buffering(s, size) ==
    /\ s \in 1..Len(streams)
    /\ IF SizeTooSmall(size)
       THEN /\ UNCHANGED <<streams, yielded>>
            /\ last' = StreamCall("enable_buffering", s, size, "ValueError", <<>>, <<>>)
       ELSE /\ streams' = [streams EXCEPT ![s].buffered = TRUE,
                                          ![s]._next = Buffering(size)]
            /\ UNCHANGED yielded
            /\ last' = StreamCall("enable_buffering", s, size, "", <<>>, <<>>)
    /\ StreamFrame

\* s.disable_buffering()
disable_buffering(s) ==
    /\ s \in 1..Len(streams)
    /\ streams' = [streams EXCEPT ![s].buffered = FALSE, ![s]._next = Unbuffered]
    /\ UNCHANGED yielded
    /\ last' = StreamCall("disable_buffering", s, 0, "", <<>>, <<>>)
    /\ StreamFrame

\* s.next(): self._next()
next(s) ==
    LET stream == streams[s]
        gen == stream._gen
        adapter == stream._next
        round == Pull(gen.chunks, gen.pos, adapter.size, <<>>, 0)
    IN  /\ s \in 1..Len(streams)
        /\ StreamFrame
        /\ IF adapter.kind = "gen"
           THEN IF gen.pos < Len(gen.chunks)
                THEN /\ streams' = [streams EXCEPT ![s]._gen.pos = gen.pos + 1]
                     /\ yielded' = [yielded EXCEPT ![s] = Append(@, gen.chunks[gen.pos + 1])]
                     /\ last' = StreamCall("next", s, 0, "", gen.chunks[gen.pos + 1],
                                           <<gen.chunks[gen.pos + 1]>>)
                ELSE /\ UNCHANGED <<streams, yielded>>
                     /\ last' = StreamCall("next", s, 0, "StopIteration", <<>>, <<>>)
           ELSE IF adapter.phase = "finished"
           THEN /\ UNCHANGED <<streams, yielded>>
                /\ last' = StreamCall("next", s, adapter.size, "StopIteration", <<>>, <<>>)
           ELSE IF round.exhausted /\ EndsStream(round.c_size)
           THEN /\ streams' = [streams EXCEPT
                                  ![s]._gen.pos = round.pos,
                                  ![s]._next = [adapter EXCEPT !.phase = "finished",
                                                               !.buf = round.buf,
                                                               !.c_size = round.c_size]]
                /\ UNCHANGED yielded
                /\ last' = StreamCall("next", s, adapter.size, "StopIteration", <<>>,
                                      round.buf)
           ELSE /\ streams' = [streams EXCEPT
                                  ![s]._gen.pos = round.pos,
                                  ![s]._next = [adapter EXCEPT !.phase = "suspended",
                                                               !.buf = round.buf,
                                                               !.c_size = round.c_size]]
                /\ yielded' = [yielded EXCEPT ![s] = Append(@, concat(round.buf))]
                /\ last' = StreamCall("next", s, adapter.size, "", concat(round.buf),
                                      round.buf)

NextStream ==
    \/ \E chunks \in Underlying : streams = <<>> /\ NewStream(chunks)
    \/ \E s \in 1..Len(streams), size \in BufferSizes : enable_buffering(s, size)
    \/ \E s \in 1..Len(streams) : disable_buffering(s)
    \/ \E s \in 1..Len(streams) : next(s)

SpecStream == Init /\ [][NextStream]_vars

\* the non-empty chunks of a sequence of chunks
NonEmpty(buf) == {i \in 1..Len(buf) : buf[i] # <<>>}

\* C17: in buffered(N) mode a next() pulls underlying chunks until N
\* non-empty ones are gathered or the underlying sequence is exhausted and
\* returns the concatenation of all it pulled: a returned chunk is non-empty
\* and holds exactly N non-empty underlying chunks, or, at exhaustion,
\* between 1 and N-1; the stream ends when a round reaches exhaustion with
\* no non-empty chunk.
C17_BufferedRounds ==
    [][(last'.op = "next" /\ streams[last'.stream]._next.kind = "buffer"
        /\ streams[last'.stream]._next.phase # "finished")
          => LET gen == streams[last'.stream]._gen
                 after == streams'[last'.stream]._gen
                 N == streams[last'.stream]._next.size
                 pulled == last'.pulled
                 n == Cardinality(NonEmpty(pulled))
             IN  /\ pulled = SubSeq(gen.chunks, gen.pos + 1, after.pos)
                 /\ IF last'.err = ""
                    THEN /\ last'.result = concat(pulled)
                         /\ last'.result # <<>>
                         /\ yielded'[last'.stream] =
                               Append(yielded[last'.stream], last'.result)
                         /\ \/ n = N /\ pulled[Len(pulled)] # <<>>
                            \/ n \in 1..(N - 1) /\ after.pos = Len(gen.chunks)
                    ELSE /\ last'.err = "StopIteration"
                         /\ n = 0 /\ after.pos = Len(gen.chunks)
                         /\ yielded'[last'.stream] = yielded[last'.stream]]_vars

\* ten one-character chunks, buffered(5) from the start: two chunks of five
\* characters, then exhaustion
C17_Witness ==
    /\ last.op = "next" /\ last.err = "StopIteration" /\ last.size = 5
    /\ streams[last.stream]._gen.chunks = TenChunks
    /\ yielded[last.stream] =
          << <<"0", "1", "2", "3", "4">>, <<"5", "6", "7", "8", "9">> >>

\* C18: enable_buffering(size) with size <= 1 fails with ValueError and
\* leaves the stream as it was, flag, adapter and underlying position;
\* with size > 1 it makes the stream buffered(size) and pulls nothing; a
\* new stream is unbuffered.
C18_EnableBuffering ==
    [][/\ last'.op = "enable_buffering" =>
             IF last'.size <= 1
             THEN /\ last'.err = "ValueError"
                  /\ streams' = streams /\ yielded' = yielded
             ELSE /\ last'.err = ""
                  /\ streams'[last'.stream].buffered
                  /\ streams'[last'.stream]._next = Buffering(last'.size)
                  /\ streams'[last'.stream]._gen = streams[last'.stream]._gen
                  /\ yielded' = yielded
       /\ last'.op = "new_stream" =>
             /\ ~ streams'[last'.stream].buffered
             /\ streams'[last'.stream]._next = Unbuffered
             /\ streams'[last'.stream]._gen.pos = 0]_vars

\* enable_buffering(1) refused on a stream that is buffered and under way
C18_Witness ==
    /\ last.op = "enable_buffering" /\ last.size = 1 /\ last.err = "ValueError"
    /\ streams[last.stream].buffered
    /\ streams[last.stream]._next.phase = "suspended"
    /\ streams[last.stream]._gen.pos > 0

\* C19: whatever the interleaving of enable_buffering, disable_buffering
\* and next, the chunks next has returned, concatenated, are the underlying
\* chunks pulled so far, concatenated in order: nothing is dropped,
\* duplicated, reordered or held back across a mode switch.
C19_NothingLost ==
    \A s \in 1..Len(streams) :
        concat(yielded[s]) =
            concat(SubSeq(streams[s]._gen.chunks, 1, streams[s]._gen.pos))

\* two chunks read unbuffered, then buffered(2) enabled: the third chunk
\* comes as the final partial group
C19_Witness ==
    /\ last.op = "next" /\ last.err = "" /\ last.size = 2
    /\ Len(last.pulled) = 1
    /\ streams[last.stream]._gen.chunks = <<<<"a">>, <<"b">>, <<"a">>>>
    /\ streams[last.stream]._gen.pos = 3
    /\ yielded[last.stream] = << <<"a">>, <<"b">>, <<"a">> >>

\* ---------------------------------------------------------------------
\* Evaluation.  root_render_func is the generator function the compiler
\* made of the template: a sequence of steps, each yielding a chunk of text
\* or exporting a name into the context.  Calling it makes a generator and
\* runs nothing; each next() runs it to its next yield, or to its end.

Yield(chunk) == [kind |-> "yield", chunk |-> chunk, name |-> ""]
Export(name) == [kind |-> "export", chunk |-> <<>>, name |-> name]

\* the compiled code of the templates the loader has
RootRender(name) ==
    IF name = "a"
    THEN <<Yield(<<"x">>), Export("foo"), Yield(<<"y">>), Export("bar")>>
    ELSE IF name = "b" THEN <<Export("foo"), Yield(<<"z">>)>>
    ELSE <<>>

\* t.root_render_func = namespace['root']
root_render_func(t) == RootRender(tmpls[t].name)

\* next() on the generator of program at step pc: it runs to the step after
\* the next yield, or to the end, where it raises StopIteration
RECURSIVE Resume(_, _)
Resume(program, pc) ==
    IF pc >= Len(program)
    THEN [pc |-> Len(program), stop |-> TRUE, chunk |-> <<>>, exported |-> {}]
    ELSE IF program[pc + 1].kind = "yield"
    THEN [pc |-> pc + 1, stop |-> FALSE, chunk |-> program[pc + 1].chunk,
          exported |-> {}]
    ELSE [Resume(program, pc + 1) EXCEPT !.exported = @ \cup {program[pc + 1].name}]

\* list(generator): next() until StopIteration
RECURSIVE Drain(_, _)
Drain(program, pc) ==
    LET r == Resume(program, pc)
    IN  IF r.stop THEN [pc |-> r.pc, chunks |-> <<>>, exported |-> r.exported]
        ELSE LET rest == Drain(program, r.pc)
             IN  [pc |-> rest.pc, chunks |-> <<r.chunk>> \o rest.chunks,
                  exported |-> r.exported \cup rest.exported]

\* a generator object: the call that made it (via) and its arguments, the
\* context it evaluates in (none before it has started), the step it is
\* suspended at, whether it has come to its end and, as history, the number
\* of next() calls made on it and the chunks it has produced
Generator(t, via, given, ctx, pc, finished, pulls, produced) ==
    [template |-> t, via |-> via, given |-> given, ctx |-> ctx, pc |-> pc,
     finished |-> finished, pulls |-> pulls, produced |-> produced]

\* the generator a caller has drained with list() or concat()
Drained(t, via, given, ctx, drained) ==
    Generator(t, via, given, ctx, drained.pc, TRUE, Len(drained.chunks) + 1,
              drained.chunks)

\* ---------------------------------------------------------------------
\* Template.module and Template.make_module.  modules is the heap of
\* TemplateModule objects; building one evaluates the template's root render
\* function once, to the end (the evaluation is taken to complete: one
\* that raises builds no module and stores nothing).  cached_module maps a
\* template to its _module attribute, so hasattr(self, '_module') is
\* membership in its domain.  Each module records, as history, the call
\* that built it.

\* a module property that never finds a stored module
HasModule_m0(t) == FALSE

\* hasattr(self, '_module')
HasModule(t) == t \in DOMAIN cached_module

\* the names context.get_exported() gives the constructor when it reads
\* them before the evaluation
ModuleNames_m0(before, after) == before.exported_vars

\* context.get_exported() on line 597, after line 596 has run the
\* evaluation to its end
ModuleNames(before, after) == after.exported_vars

\* TemplateModule(template, context): one evaluation of root_render_func,
\* run to its end and kept as __body_stream, then the exported names
TemplateModule(t, context, before, after, drained, via) ==
    [template |-> t, context |-> context, name |-> tmpls[t].name, via |-> via,
     body_stream |-> drained.chunks, names |-> ModuleNames(before, after)]

\* the state after self.make_module(vars, shared) called from via
ModuleMade(t, given, shared, via) ==
    LET built == ContextBuilt(t, given, shared)
        drained == Drain(root_render_func(t), 0)
        after == [built.ctx EXCEPT !.exported_vars = @ \cup drained.exported]
        c == Len(ctxs) + 1
    IN  [dicts |-> built.dicts,
         ctxs |-> Append(ctxs, after),
         gens |-> Append(gens, Drained(t, via, EmptyMap, c, drained)),
         modules |-> Append(modules, TemplateModule(t, c, built.ctx, after, drained, via)),
         rv |-> Len(modules) + 1]

make_module(t, given, shared) ==
    LET made == ModuleMade(t, given, shared, "make_module")
    IN  /\ t \in 1..Len(tmpls)
        /\ regs' = made.dicts
        /\ ctxs' = made.ctxs
        /\ gens' = made.gens
        /\ modules' = made.modules
        /\ last' = [op |-> "make_module", template |-> t, result |-> made.rv,
                    evals |-> Len(made.modules) - Len(modules)]
        /\ UNCHANGED <<envs, caches, tmpls, got, csize, uses>>
        /\ UNCHANGED <<pool, cached_module, streams, yielded>>

module(t) ==
    /\ t \in 1..Len(tmpls)
    /\ IF HasModule(t)
       THEN /\ last' = [op |-> "module", template |-> t,
                        result |-> cached_module[t], evals |-> 0]
            /\ UNCHANGED <<regs, ctxs, gens, modules, cached_module>>
       ELSE LET made == ModuleMade(t, <<>>, FALSE, "module")
            IN  /\ regs' = made.dicts
                /\ ctxs' = made.ctxs
                /\ gens' = made.gens
                /\ modules' = made.modules
                /\ cached_module' = Put(cached_module, t, made.rv)
                /\ last' = [op |-> "module", template |-> t, result |-> made.rv,
                            evals |-> Len(made.modules) - Len(modules)]
    /\ UNCHANGED <<envs, caches, tmpls, got, csize, uses>>
    /\ UNCHANGED <<pool, streams, yielded>>

\* unicode(module): concat of the chunks the constructor kept (line 601)
unicode(m) ==
    /\ m \in 1..Len(modules)
    /\ last' = [op |-> "unicode", module |-> m, template |-> modules[m].template,
                result |-> concat(modules[m].body_stream)]
    /\ UNCHANGED <<envs, caches, regs, tmpls, got, csize, uses>>
    /\ UNCHANGED tvars

NextModule ==
    \/ \E args \in ContextArgs : envs = <<>> /\ NewEnvironment(args)
    \/ \E e \in 1..Len(envs) :
          get_template(e, "a", <<>>, "nocheck") /\ Len(tmpls') <= MaxModTmpls
    \/ \E t \in 1..Len(tmpls), shared \in BOOLEAN,
          given \in {<<>>, <<"new", [x |-> "caller"]>>} :
          Len(modules) < MaxModules /\ make_module(t, given, shared)
    \/ \E t \in 1..Len(tmpls) :
          (HasModule(t) \/ Len(modules) < MaxModules) /\ module(t)

SpecModule == Init /\ [][NextModule]_vars

\* the modules of template t that an access to its module property built
BuiltByAccess(t) ==
    {m \in 1..Len(modules) : modules[m].template = t /\ modules[m].via = "module"}

\* C20: for one template, the first access to the module property evaluates
\* the root render function once and builds a module; every later access
\* evaluates nothing and returns that very module; every make_module call
\* evaluates once and returns a module that did not exist before.
C20_ModuleMemoised ==
    [][/\ last'.op = "module" =>
             IF BuiltByAccess(last'.template) = {}
             THEN /\ last'.evals = 1
                  /\ Len(modules') = Len(modules) + 1
                  /\ last'.result \notin 1..Len(modules)
                  /\ modules'[last'.result].template = last'.template
             ELSE /\ last'.evals = 0
                  /\ modules' = modules
                  /\ BuiltByAccess(last'.template) = {last'.result}
       /\ last'.op = "make_module" =>
             /\ last'.evals = 1
             /\ Len(modules') = Len(modules) + 1
             /\ last'.result \notin 1..Len(modules)
             /\ modules'[last'.result].template = last'.template
             /\ \A m \in 1..Len(modules) : modules'[m] = modules[m]]_vars

\* a second access to the module property, after a make_module call came
\* between it and the first access: it returns the first access's module,
\* not the newer one
C20_Witness ==
    /\ last.op = "module"
    /\ last.evals = 0
    /\ \E m \in 1..Len(modules) :
          /\ m > last.result
          /\ modules[m].template = last.template
          /\ modules[m].via = "make_module"

----------------------------------------------------------------------------
(* A loader that fails *)

\* C24: when the loader fails during get_template, the caller gets the
\* loader's TemplateNotFound, no template comes into being and every cache
\* holds the entries it held before, a stale entry for the requested name
\* among them; the next get_template for that name on that environment,
\* auto_reload being true, invokes the loader again.
C24_LoaderFailureKeepsCache ==
    [][/\ (last'.op = "get_template" /\ last'.err = "TemplateNotFound") =>
             /\ last'.loads = 1
             /\ last'.result = NoObject
             /\ tmpls' = tmpls
             /\ Len(caches') = Len(caches)
             /\ \A c \in 1..Len(caches) : caches'[c].map = caches[c].map
             /\ envs[last'.env].cache # NoObject =>
                   CacheGet(caches'[envs[last'.env].cache], last'.name) = last'.cached
       /\ (/\ last.op = "get_template" /\ last.err = "TemplateNotFound"
           /\ last'.op = "get_template"
           /\ last'.env = last.env /\ last'.name = last.name
           /\ envs[last.env].auto_reload) =>
             last'.loads = 1]_vars

\* the loader failed for a name whose cached template had gone stale: the
\* stale template is in the cache still
C24_Witness ==
    /\ LastGet /\ last.err = "TemplateNotFound"
    /\ LastEnv.auto_reload /\ LastEnv.cache # NoObject
    /\ last.cached # NoObject
    /\ ~ is_up_to_date(tmpls[last.cached])
    /\ CacheGet(CacheOf(last.env), last.name) = last.cached

----------------------------------------------------------------------------
(* Template globals and the cache *)

\* the globals arguments of get_template: None, and two mappings, one of
\* which overrides a default of the environment
GlobalsGiven == {<<>>, <<[x |-> "g1"]>>, <<[x |-> "g2", range |-> "mine"]>>}

GlobalsArgs ==
    {[DefaultArgs EXCEPT !.loader = "loader", !.cache_size = s, !.auto_reload = r] :
        s \in {-1, 1}, r \in BOOLEAN}

NextGlobals ==
    \/ \E args \in GlobalsArgs : envs = <<>> /\ NewEnvironment(args)
    \/ \E e \in 1..Len(envs), n \in Names, g \in GlobalsGiven,
          out \in {"check", "nocheck"} :
          get_template(e, n, g, out) /\ Len(tmpls') <= MaxGlobTmpls
    \/ \E t \in 1..Len(tmpls) : SourceChanges(t)

SpecGlobals == Init /\ [][NextGlobals]_vars

RunsOnCall_m0(via) == TRUE

\* render calls _generate itself (line 481).  generate is a generator
\* function: its body, with the call of _generate on line 502, runs at the
\* first next(); stream passes that generator on (line 491)
RunsOnCall(via) == via = "render"

\* self._generate(*args, **kwargs) for generator g of template t: a dict of
\* the arguments, a new context on it, and the root render generator
GenerateStarted(t, given) ==
    LET built == ContextBuilt(t, <<"new", given>>, FALSE)
    IN  [dicts |-> built.dicts, ctxs |-> Append(ctxs, built.ctx),
         ctx |-> Len(ctxs) + 1]

\* the context c after an evaluation in it has exported names
Exported(cs, c, names) ==
    [cs EXCEPT ![c].exported_vars = @ \cup names]

\* t.render(**given)
render(t, given) ==
    LET started == GenerateStarted(t, given)
        drained == Drain(root_render_func(t), 0)
    IN  /\ t \in 1..Len(tmpls)
        /\ regs' = started.dicts
        /\ ctxs' = Exported(started.ctxs, started.ctx, drained.exported)
        /\ gens' = Append(gens, Drained(t, "render", given, started.ctx, drained))
        /\ last' = [op |-> "render", template |-> t, gen |-> Len(gens) + 1,
                    err |-> "", result |-> concat(drained.chunks)]
        /\ UNCHANGED <<envs, caches, tmpls, got, csize, uses>>
        /\ UNCHANGED <<pool, modules, cached_module, streams, yielded>>

\* the generator t.generate(**given) returns, or the one in t.stream(**given)
Generated(t, given, via) ==
    IF RunsOnCall(via)
    THEN LET started == GenerateStarted(t, given)
         IN  [dicts |-> started.dicts, ctxs |-> started.ctxs,
              gens |-> Append(gens, Generator(t, via, given, started.ctx, 0,
                                              FALSE, 0, <<>>))]
    ELSE [dicts |-> regs, ctxs |-> ctxs,
          gens |-> Append(gens, Generator(t, via, given, NoObject, 0, FALSE, 0, <<>>))]

\* t.generate(**given)
TemplateGenerate(t, given) ==
    LET made == Generated(t, given, "generate")
    IN  /\ t \in 1..Len(tmpls)
        /\ regs' = made.dicts
        /\ ctxs' = made.ctxs
        /\ gens' = made.gens
        /\ last' = [op |-> "generate", template |-> t, gen |-> Len(gens) + 1,
                    err |-> "", result |-> <<>>]
        /\ UNCHANGED <<envs, caches, tmpls, got, csize, uses>>
        /\ UNCHANGED <<pool, modules, cached_module, streams, yielded>>

\* t.stream(**given): TemplateStream(self.generate(**given))
stream(t, given) ==
    LET made == Generated(t, given, "stream")
    IN  /\ t \in 1..Len(tmpls)
        /\ regs' = made.dicts
        /\ ctxs' = made.ctxs
        /\ gens' = made.gens
        /\ streams' = Append(streams, [_gen |-> [ref |-> Len(gens) + 1],
                                       _next |-> Unbuffered, buffered |-> FALSE])
        /\ yielded' = Append(yielded, <<>>)
        /\ last' = [op |-> "stream", template |-> t, gen |-> Len(gens) + 1,
                    err |-> "", result |-> <<>>]
        /\ UNCHANGED <<envs, caches, tmpls, got, csize, uses>>
        /\ UNCHANGED <<pool, modules, cached_module>>

\* g.next() on the generator of generate, which an unbuffered stream calls
\* as its own next
GeneratorNext(g) ==
    LET gen == gens[g]
        t == gen.template
        first == gen.ctx = NoObject
        started == IF first THEN GenerateStarted(t, gen.given)
                   ELSE [dicts |-> regs, ctxs |-> ctxs, ctx |-> gen.ctx]
        r == Resume(root_render_func(t), gen.pc)
    IN  /\ g \in 1..Len(gens)
        /\ IF gen.finished
           THEN /\ gens' = [gens EXCEPT ![g].pulls = @ + 1]
                /\ UNCHANGED <<regs, ctxs>>
                /\ last' = [op |-> "gen_next", template |-> t, gen |-> g,
                            err |-> "StopIteration", result |-> <<>>]
           ELSE /\ regs' = started.dicts
                /\ ctxs' = Exported(started.ctxs, started.ctx, r.exported)
                /\ gens' = [gens EXCEPT ![g] =
                               [@ EXCEPT !.ctx = started.ctx, !.pc = r.pc,
                                         !.finished = r.stop, !.pulls = @ + 1,
                                         !.produced = IF r.stop THEN @
                                                      ELSE Append(@, r.chunk)]]
                /\ last' = [op |-> "gen_next", template |-> t, gen |-> g,
                            err |-> IF r.stop THEN "StopIteration" ELSE "",
                            result |-> r.chunk]
        /\ UNCHANGED <<envs, caches, tmpls, got, csize, uses>>
        /\ UNCHANGED <<pool, modules, cached_module, streams, yielded>>

\* one environment with a loader and a cache
RenderEnvArgs == {[DefaultArgs EXCEPT !.loader = "loader", !.cache_size = -1]}

NextRender ==
    \/ \E args \in RenderEnvArgs : envs = <<>> /\ NewEnvironment(args)
    \/ \E e \in 1..Len(envs), n \in {"a"} :
          get_template(e, n, <<>>, "nocheck") /\ Len(tmpls') <= MaxRenderTmpls
    \/ \E t \in 1..Len(tmpls) :
          Len(gens) < MaxGens /\ render(t, [x |-> "caller"])
    \/ \E t \in 1..Len(tmpls) :
          Len(gens) < MaxGens /\ TemplateGenerate(t, [x |-> "caller"])
    \/ \E t \in 1..Len(tmpls) :
          Len(gens) < MaxGens /\ stream(t, EmptyMap)
    \/ \E g \in 1..Len(gens) :
          gens[g].pulls < MaxPulls /\ GeneratorNext(g)
    \/ \E t \in 1..Len(tmpls) :
          Len(gens) < MaxGens /\ make_module(t, <<>>, FALSE)
    \/ \E m \in 1..Len(modules) : unicode(m)

SpecRender == Init /\ [][NextRender]_vars

IsYield(step) == step.kind = "yield"

\* the chunks the first pc steps of program yield, in order
YieldedBefore(program, pc) ==
    LET ys == SelectSeq(SubSeq(program, 1, pc), IsYield)
    IN  [i \in 1..Len(ys) |-> ys[i].chunk]

\* the names the first pc steps of program export
ExportsBefore(program, pc) ==
    {program[i].name : i \in {j \in 1..pc : program[j].kind = "export"}}

\* no two generators evaluate in one context, nor on one mapping
OwnContexts ==
    \A g \in 1..Len(gens), h \in 1..Len(gens) :
        (g # h /\ gens[g].ctx # NoObject /\ gens[h].ctx # NoObject)
            => /\ gens[g].ctx # gens[h].ctx
               /\ ctxs[gens[g].ctx].parent # ctxs[gens[h].ctx].parent

\* C21: a call of generate or stream makes a generator and nothing else: no
\* context, no mapping, no step of the root render function.  Each next()
\* on it touches no other generator and no other call's context; the k-th
\* next() that returns a chunk returns the k-th chunk of the template and
\* leaves the evaluation at the yield of that chunk, nothing after it run.
\* The context a call of render, generate or stream evaluates in is made
\* for it and is no other call's.
C21_LazyGenerate ==
    [][/\ last'.op \in {"generate", "stream"} =>
             /\ ctxs' = ctxs /\ regs' = regs
             /\ Len(gens') = Len(gens) + 1
             /\ \A g \in 1..Len(gens) : gens'[g] = gens[g]
             /\ gens'[last'.gen].ctx = NoObject
             /\ gens'[last'.gen].pc = 0
             /\ gens'[last'.gen].produced = <<>>
       /\ last'.op = "gen_next" =>
             LET before == gens[last'.gen]
                 after == gens'[last'.gen]
                 program == root_render_func(last'.template)
             IN  /\ \A h \in 1..Len(gens) : h # last'.gen => gens'[h] = gens[h]
                 /\ \A c \in 1..Len(ctxs) : c # before.ctx => ctxs'[c] = ctxs[c]
                 /\ after.pulls = before.pulls + 1
                 /\ (before.ctx = NoObject /\ ~ before.finished) =>
                        after.ctx \notin 1..Len(ctxs)
                 /\ before.ctx # NoObject => after.ctx = before.ctx
                 /\ last'.err = "" =>
                        /\ Len(after.produced) = after.pulls
                        /\ after.produced = Append(before.produced, last'.result)
                        /\ after.produced = YieldedBefore(program, after.pc)
                        /\ IsYield(program[after.pc])
                        /\ ctxs'[after.ctx].exported_vars =
                               ExportsBefore(program, after.pc)
                 /\ last'.err # "" =>
                        /\ last'.err = "StopIteration"
                        /\ after.produced = before.produced
                        /\ after.produced = YieldedBefore(program, Len(program))
       /\ last'.op = "render" =>
             /\ gens'[last'.gen].ctx \notin 1..Len(ctxs)
             /\ last'.result =
                   concat(YieldedBefore(root_render_func(last'.template),
                                        Len(root_render_func(last'.template))))
       /\ OwnContexts']_vars

\* two generators of one template: the consumer of the one stopped after
\* two chunks, and the name exported after the second chunk is not
\* exported; the other, pulled once, has a context of its own
C21_Witness ==
    \E g \in 1..Len(gens), h \in 1..Len(gens) :
        /\ gens[g].via = "generate" /\ gens[h].via = "generate"
        /\ gens[g].template = gens[h].template
        /\ tmpls[gens[g].template].name = "a"
        /\ gens[g].pulls = 2 /\ gens[g].produced = << <<"x">>, <<"y">> >>
        /\ ctxs[gens[g].ctx].exported_vars = {"foo"}
        /\ gens[h].pulls = 1 /\ gens[h].produced = << <<"x">> >>
        /\ ctxs[gens[h].ctx].exported_vars = {}
        /\ gens[g].ctx # gens[h].ctx

\* C22: the constructor of TemplateModule makes one generator of the root
\* render function, in the module's context, and runs it to its end; the
\* module holds every chunk of the template in order and every name the
\* template exports, those exported after the last chunk among them.
\* unicode(module) is the concatenation of those chunks and makes no
\* generator, changes no context and no module.
C22_ModuleDrainsOnce ==
    [][/\ Len(modules') = Len(modules) + 1 =>
             LET m == modules'[Len(modules')]
                 program == root_render_func(m.template)
                 made == {g \in 1..Len(gens') : gens'[g].ctx = m.context}
             IN  /\ Len(gens') = Len(gens) + 1
                 /\ made = {Len(gens')}
                 /\ m.context \notin 1..Len(ctxs)
                 /\ gens'[Len(gens')].finished
                 /\ gens'[Len(gens')].pc = Len(program)
                 /\ m.body_stream = YieldedBefore(program, Len(program))
                 /\ m.names = ExportsBefore(program, Len(program))
                 /\ m.names = ctxs'[m.context].exported_vars
                 /\ m.name = tmpls[m.template].name
       /\ last'.op = "unicode" =>
             /\ last'.result = concat(modules[last'.module].body_stream)
             /\ last'.result =
                   concat(YieldedBefore(root_render_func(last'.template),
                                        Len(root_render_func(last'.template))))
             /\ gens' = gens /\ ctxs' = ctxs /\ modules' = modules
             /\ regs' = regs]_vars

\* the text of a module of template "a", which exports a name after its
\* last chunk: the module has the name
C22_Witness ==
    /\ last.op = "unicode"
    /\ tmpls[last.template].name = "a"
    /\ last.result = <<"x", "y">>
    /\ modules[last.module].names = {"foo", "bar"}
    /\ Cardinality({g \in 1..Len(gens) : gens[g].ctx = modules[last.module].context}) = 1

====
